---- MODULE Spec2Model ----
(***************************************************************************)
(* Model of the internship finder bot (src/src/bot.py and the adapters in  *)
(* src/src/fetchers): one process run is one cycle of                      *)
(*   hydrate seen URLs -> initialize adapters -> concurrent fetch ->       *)
(*   merge -> keyword/location/recency filter -> dedup -> save -> notify   *)
(*   -> cleanup.                                                           *)
(* Strings are sequences of one-character strings, so that substring       *)
(* tests, lower-casing and the document-id encoding are computed.          *)
(***************************************************************************)
EXTENDS Integers, Sequences, FiniteSets, TLC

(* ------------------------------ bounds -------------------------------- *)

\* Most records one adapter returns from one fetch.
MaxFetch == 2

\* Most cycles (calls of run()) in one behaviour.
MaxCycles == 2

\* The clock reading of filter_last_24_hours, in seconds.
EvalTime == 200000

\* Most records in the merged list given to the filters on their own.
MaxFilter == 2

\* Most fresh records handed to send_telegram_notification at once.
MaxBatch == 12

\* Largest max_retries an adapter is constructed with.
MaxRetriesCap == 3

(* ------------------------- program constants -------------------------- *)

\* WEB_SCRAPERS[...]["max_retries"]
ConfiguredMaxRetries == 3

\* timedelta(hours=24), in seconds.
RecencyWindow == 86400

\* chunk_list(internships, 5).
ChunkSize == 5

\* len(encoded) > 1400 switches the document id to a digest.
DocIdMaxLen == 1400

(* ------------------------------ strings ------------------------------- *)

\* The characters that the pattern [a-zA-Z0-9\-_.~] leaves alone; every
\* other character (":", "/", "?", " ", ...) is replaced.
SafeChars ==
    {"a", "b", "c", "d", "e", "f", "g", "h", "i", "j", "k", "l", "m",
     "n", "o", "p", "q", "r", "s", "t", "u", "v", "w", "x", "y", "z",
     "A", "B", "C", "D", "E", "F", "G", "H", "I", "J", "K", "L", "M",
     "N", "O", "P", "Q", "R", "S", "T", "U", "V", "W", "X", "Y", "Z",
     "0", "1", "2", "3", "4", "5", "6", "7", "8", "9",
     "-", "_", ".", "~"}

LowerChar(c) ==
    CASE c = "A" -> "a"
      [] c = "I" -> "i"
      [] c = "R" -> "r"
      [] c = "T" -> "t"
      [] OTHER -> c

\* str.lower()
Lower(s) == [i \in 1..Len(s) |-> LowerChar(s[i])]

\* Python's `p in s` for strings.
IsSubstring(p, s) ==
    \E i \in 0..(Len(s) - Len(p)) : SubSeq(s, i + 1, i + Len(p)) = p

\* The character U+0000, in caret notation: one below U+0020 that is
\* neither whitespace nor one of "\n\r\t".
Nul == "^@"

\* The whitespace of the model's strings, as str.split() and str.strip()
\* take it.
Whitespace == {" ", "\t", "\n"}

\* The places of a string, in increasing order, as a string.
AtPlacesOf(str, places) ==
    [k \in 1..Cardinality(places) |->
        str[CHOOSE i \in places : Cardinality({j \in places : j < i}) = k - 1]]

\* str.strip()
Strip(str) ==
    LET inked == {i \in 1..Len(str) : str[i] \notin Whitespace}
    IN  AtPlacesOf(str, {i \in 1..Len(str) :
                            /\ \E j \in inked : j <= i
                            /\ \E j \in inked : j >= i})

\* ' '.join(text.split()): the words of the text, one space between two.
JoinSplit(text) ==
    LET inked == {i \in 1..Len(text) : text[i] \notin Whitespace}
        kept  == {i \in 1..Len(text) :
                     \/ i \in inked
                     \/ /\ i - 1 \in inked
                        /\ \E j \in inked : j > i}
        words == AtPlacesOf(text, kept)
    IN  [k \in 1..Len(words) |->
            IF words[k] \in Whitespace THEN " " ELSE words[k]]

\* ''.join(char for char in text if ord(char) >= 32 or char in '\n\r\t')
DropControl(text) == SelectSeq(text, LAMBDA c : c # Nul)

\* helpers.clean_text
CleanText(text) ==
    IF text = <<>> THEN <<>> ELSE Strip(DropControl(JoinSplit(text)))

\* The digits of a hexdigest.
HexDigits == <<"0", "1", "2", "3", "4", "5", "6", "7", "8", "9",
               "a", "b", "c", "d", "e", "f">>

\* len(hexdigest()) of SHA-256: 256 bits, four to a digit.
DigestLen == 64

\* Number of places of a string that hold the character c.
Occurrences(c, str) == Cardinality({i \in 1..Len(str) : str[i] = c})

\* hashlib.sha256(url.encode()).hexdigest(): DigestLen hex digits that
\* depend on nothing but the URL. The mixing of SHA-256 is stood in for by
\* one over the length of the URL and the counts of three characters.
Sha256Hex(url) ==
    LET n == Len(url)
        a == Occurrences("a", url)
        b == Occurrences("b", url)
        c == Occurrences(":", url)
    IN  [i \in 1..DigestLen |->
            HexDigits[((n + i * a + i * i * b + (i + 7) * c + i) % 16) + 1]]

EncodeDocIdNoDigest(url) ==
    [i \in 1..Len(url) |-> IF url[i] \in SafeChars THEN url[i] ELSE "_"]

\* re.sub(r"[^a-zA-Z0-9\-_.~]", "_", url), then the digest for long ids.
EncodeDocId(url) ==
    LET encoded == [i \in 1..Len(url) |->
                        IF url[i] \in SafeChars THEN url[i] ELSE "_"]
    IN  IF Len(encoded) > DocIdMaxLen THEN Sha256Hex(url) ELSE encoded

(* ------------------------------ records ------------------------------- *)

U1 == <<"h", ":", "a">>
U2 == <<"h", ":", "b">>
U3 == <<"h", ":", "h">>
Urls == {U1, U2}

\* config.IT_KEYWORDS, by two of its entries ("ai", "it").
IT_KEYWORDS == << <<"a", "i">>, <<"i", "t">> >>

\* config.LOCATION_FILTERS
LOCATION_FILTERS == << <<"i", "n", "d", "i", "a">> >>

India == <<"I", "n", "d", "i", "a">>
Remote == <<"R", "e", "m", "o", "t", "e">>

\* A missing posted date, and datetime values: a clock reading in seconds,
\* without tzinfo or with the UTC offset of its zone.
None == [kind |-> "none"]
Naive(clock) ==
    [kind |-> "datetime", clock |-> clock, aware |-> FALSE, utcoffset |-> 0]
Aware(clock, utcoffset) ==
    [kind |-> "datetime", clock |-> clock, aware |-> TRUE,
     utcoffset |-> utcoffset]

\* datetime.utcnow() while an adapter builds its records, which is before
\* the recency filter reads the clock.
UtcNowAtFetch == Naive(EvalTime - 1)

\* A dict or a **kwargs without entries.
NoEntries == [k \in {} |-> <<>>]

\* The parameters of Internship.__init__ that have a name.
FieldNames == {"title", "company", "location", "url", "source", "posted_date",
               "description"}

\* The arguments of one call of Internship(...).
Args(title, company, location, url, source, posted_date, description, kwargs) ==
    [title |-> title, company |-> company, location |-> location, url |-> url,
     source |-> source, posted_date |-> posted_date,
     description |-> description, kwargs |-> kwargs]

\* Internship.__init__: the object it leaves, from its arguments.
NewInternship(args) ==
    [title |-> CleanText(args.title), company |-> CleanText(args.company),
     location |-> CleanText(args.location), url |-> Strip(args.url),
     source |-> args.source,
     posted_date |-> IF args.posted_date = None THEN UtcNowAtFetch
                     ELSE args.posted_date,
     description |-> CleanText(IF args.description = None THEN <<>>
                               ELSE args.description),
     metadata |-> args.kwargs]

\* Internship objects as the adapters construct them, by the attributes
\* that run() reads.
Internship(title, location, url, posted_date, description) ==
    LET x == NewInternship(Args(title, <<>>, location, url, <<>>, posted_date,
                                description, NoEntries))
    IN  [title |-> x.title, location |-> x.location, url |-> x.url,
         posted_date |-> x.posted_date, description |-> x.description]

\* Internship.to_dict: a dict of the seven attributes and, after them, the
\* entries of the metadata.
to_dict(x) ==
    [k \in FieldNames \cup DOMAIN x.metadata |->
        IF k \in DOMAIN x.metadata THEN x.metadata[k] ELSE x[k]]

\* dict.get(key, default)
Get(data, key, default) == IF key \in DOMAIN data THEN data[key] ELSE default

\* Internship.from_dict
from_dict(data) ==
    NewInternship(Args(Get(data, "title", <<>>), Get(data, "company", <<>>),
                       Get(data, "location", <<>>), Get(data, "url", <<>>),
                       Get(data, "source", <<>>), Get(data, "posted_date", None),
                       Get(data, "description", <<>>),
                       [k \in DOMAIN data \ FieldNames |-> data[k]]))

\* hash(str): a number that depends on nothing but the characters; the
\* mixing of the interpreter is stood in for by one over the length and
\* the counts of two characters.
StrHash(str) ==
    (Len(str) * 1000003 + Occurrences("a", str) * 31 + Occurrences(":", str))
        % 2147483647

\* Internship.__eq__ between two Internship objects.
InternshipEq(x, y) == x.url = y.url

\* Internship.__hash__
InternshipHash(x) == StrHash(x.url)

RecA    == Internship(<<"A", "I">>, India, U1, Naive(EvalTime - 3600), <<>>)
RecAOld == Internship(<<"A", "I">>, India, U1,
                      Naive(EvalTime - RecencyWindow - 1), <<>>)
RecB    == Internship(<<>>, India, U2, Naive(EvalTime - 60), <<"i", "t">>)
RecCook == Internship(<<"c", "o", "o", "k">>, India, U2, Naive(EvalTime - 60), <<>>)
RecRss  == Internship(<<"A", "I">>, Remote, U2, Naive(EvalTime - 60), <<>>)

\* Records at the edges of the filters: posted 23h59m before the filter
\* runs, and an hour after; stamped in a zone east of UTC so that the
\* instant is older than the clock reading suggests, and in one west of UTC
\* so that it is newer; without a date; without title and description;
\* with the keyword in upper case in the description only.
RecEdge     == Internship(<<"A", "I">>, India, U1,
                          Naive(EvalTime - RecencyWindow + 60), <<>>)
RecFuture   == Internship(<<"A", "I">>, India, U2, Naive(EvalTime + 3600), <<>>)
RecAwareOld == Internship(<<"A", "I">>, India, U2,
                          Aware(EvalTime - RecencyWindow + 3600, 5 * 3600), <<>>)
RecAwareNew == Internship(<<"A", "I">>, India, U2,
                          Aware(EvalTime - RecencyWindow - 3600, 0 - 5 * 3600), <<>>)
RecNoDate   == Internship(<<"A", "I">>, India, U3, None, <<>>)
RecEmpty    == Internship(<<>>, India, U1, Naive(EvalTime - 60), <<>>)
RecDesc     == Internship(<<"c", "o", "o", "k">>, India, U1, Naive(EvalTime - 60),
                          <<"a", " ", "I", "T", " ", "b">>)

\* A record whose location is blank after clean_text, and one located
\* outside the allow-list.
RecNoLoc == Internship(<<"A", "I">>, <<>>, U2, Naive(EvalTime - 60), <<>>)
RecAway  == Internship(<<"A", "I">>, Remote, U1, Naive(EvalTime - 60), <<>>)

FilterPool == {RecA, RecAOld, RecB, RecCook, RecEdge, RecFuture, RecAwareOld,
               RecAwareNew, RecNoDate, RecEmpty, RecDesc, RecNoLoc, RecAway}

\* The URL of the i-th posting of a long answer of a provider.
Digits == <<"0", "1", "2", "3", "4", "5", "6", "7", "8", "9">>
BatchUrl(i) == <<"h", ":", Digits[((i \div 10) % 10) + 1], Digits[(i % 10) + 1]>>
BatchRec(i) == Internship(<<"A", "I">>, India, BatchUrl(i), Naive(EvalTime - 60), <<>>)

\* The adapters of _initialize_fetchers_once that the model runs, in the
\* order of the list self.fetchers: the first and the last of the list.
AllFetchers == <<"rss", "internshala">>

\* What one fetch of an adapter can parse out of its provider's answer.
\* RssFetcher._parse_entry sets location='Remote' on every record.
PoolOf(f) ==
    CASE f = "rss"         -> {RecRss}
      [] f = "remotive"    -> {RecA, RecAOld, RecB}
      [] f = "internshala" -> {RecA, RecAOld, RecB}

SeqsUpTo(S, n) == UNION {[1..k -> S] : k \in 0..n}

(* --------------------------- pure pipeline ---------------------------- *)

\* helpers.is_it_related
is_it_related(text, keywords) ==
    /\ text # <<>>
    /\ \E k \in 1..Len(keywords) : IsSubstring(Lower(keywords[k]), Lower(text))

KeywordFilterTitleOnly(internships) ==
    SelectSeq(internships,
              LAMBDA i : i.title # <<>> /\ is_it_related(i.title, IT_KEYWORDS))

\* run(): the IT-related list comprehension.
KeywordFilter(internships) ==
    SelectSeq(internships,
              LAMBDA i : \/ (i.title # <<>> /\ is_it_related(i.title, IT_KEYWORDS))
                         \/ (i.description # <<>>
                             /\ is_it_related(i.description, IT_KEYWORDS)))

LocationFilterKeepsUnlocated(internships, filters) ==
    IF filters # <<>>
    THEN SelectSeq(internships,
                   LAMBDA i : \/ i.location = <<>>
                              \/ \E k \in 1..Len(filters) :
                                    IsSubstring(Lower(filters[k]),
                                                Lower(i.location)))
    ELSE internships

\* run(): the location loop, taken only when LOCATION_FILTERS is non-empty.
LocationFilter(internships, filters) ==
    IF filters # <<>>
    THEN SelectSeq(internships,
                   LAMBDA i : /\ i.location # <<>>
                              /\ \E k \in 1..Len(filters) :
                                    IsSubstring(Lower(filters[k]),
                                                Lower(i.location)))
    ELSE internships

\* The instant of a datetime in UTC seconds, as the comparison of two aware
\* datetimes takes it; `replace(tzinfo=timezone.utc)` on one without tzinfo.
UtcInstant(posted_date) ==
    IF posted_date.aware THEN posted_date.clock - posted_date.utcoffset
    ELSE posted_date.clock

\* helpers.filter_last_24_hours, on the dicts of the records.
filter_last_24_hours(dicts) ==
    SelectSeq(dicts,
              LAMBDA d : /\ d.posted_date # None
                         /\ UtcInstant(d.posted_date) >= EvalTime - RecencyWindow)

\* run(): recent_urls, then the records whose URL is among them.
RecentInternships(it_filtered) ==
    LET recent_dicts == filter_last_24_hours(it_filtered)
        recent_urls  == {recent_dicts[k].url : k \in 1..Len(recent_dicts)}
    IN  SelectSeq(it_filtered, LAMBDA i : i.url # <<>> /\ i.url \in recent_urls)

\* The three filter steps of run(), in sequence.
RelevanceFilter(all, filters) ==
    RecentInternships(LocationFilter(KeywordFilter(all), filters))

is_duplicate_never(url, seen) == FALSE

\* InternshipFinderBot.is_duplicate
is_duplicate(url, seen) == url \in seen

\* run(): the dedup loop that builds `fresh`.
FreshOf(recent, seen) == SelectSeq(recent, LAMBDA i : ~is_duplicate(i.url, seen))

chunk_list_full_only(lst, chunk_size) ==
    [k \in 1..(Len(lst) \div chunk_size) |->
        SubSeq(lst, (k - 1) * chunk_size + 1, k * chunk_size)]

\* helpers.chunk_list
chunk_list(lst, chunk_size) ==
    [k \in 1..((Len(lst) + chunk_size - 1) \div chunk_size) |->
        SubSeq(lst, (k - 1) * chunk_size + 1,
               IF k * chunk_size < Len(lst) THEN k * chunk_size ELSE Len(lst))]

(* ----------------------------- dedup tiers ---------------------------- *)

\* seen_urls.json: missing, a JSON list of ids, or unreadable / not a list.
\* `entries` is the length of the JSON list: json.dump(list(a set)) writes
\* every id once.
NoFile      == [kind |-> "missing", ids |-> {}, entries |-> 0]
CorruptFile == [kind |-> "corrupt", ids |-> {}, entries |-> 0]
ListFile(ids) == [kind |-> "list", ids |-> ids, entries |-> Cardinality(ids)]

\* _load_seen_urls: what the read of the local file adds to the set.
LocalView(file) == IF file.kind = "list" THEN file.ids ELSE {}

\* _load_seen_urls._fetch_ids: the document ids, or set() on an exception.
FetchIds(docs, ok) == IF ok THEN docs ELSE {}

WriteLocalAppend(file, ids, outcome) ==
    CASE outcome = "ok"     -> [kind |-> "list", ids |-> file.ids \cup ids,
                                entries |-> file.entries + 1]
      [] outcome = "denied" -> file

WriteLocalNewOnly(file, ids, outcome) ==
    CASE outcome = "ok"     -> ListFile(ids \ file.ids)
      [] outcome = "denied" -> file

\* open(local_file, 'w'); json.dump(list(ids), f): the file afterwards, when
\* the write succeeds and when open() raises.
WriteLocal(file, ids, outcome) ==
    CASE outcome = "ok"     -> ListFile(ids)
      [] outcome = "denied" -> file

WriteOutcomes == {"ok", "denied"}

LoadSeenUrlsKeepOld(prev, local, ids) == prev \cup local \cup ids

\* _load_seen_urls: the in-memory set after hydration.
LoadSeenUrls(prev, local, ids) ==
    LET afterLocal == {} \cup local
    IN  IF ids # {} THEN afterLocal \cup ids ELSE afterLocal

(* ------------------------------ adapters ------------------------------ *)

Returned(value) == [kind |-> "return", value |-> value]
Raised == [kind |-> "raise", value |-> <<>>]

\* get_seen_jobs: the global cache, loaded from seen_jobs.json when it is
\* empty (the Firestore client _db of seen_jobs.py stays None: the bot has
\* initialized the firebase app before any adapter asks).
get_seen_jobs(cache, file) == IF cache = {} THEN cache \cup file ELSE cache

\* seen_jobs._db, the Firestore client of the seen-jobs module: it is set
\* only by initialize_seen_jobs when firebase_admin has no app, and the
\* constructor of the bot raises unless it has one.
SeenJobsDb == FALSE

cleanup_seen_jobs_unguarded(cache, db, old) == cache \ old

\* cleanup_seen_jobs: returns at once without a client; with one, the
\* documents older than 30 days are deleted and removed from the cache.
cleanup_seen_jobs(cache, db, old) == IF ~db THEN cache ELSE cache \ old

\* `if not self.seen_jobs`: the adapter holds the global set and it is
\* non-empty.
SeenJobsTruthy(ref, cache) == ref /\ cache # {}

\* BaseFetcher.filter_new_internships: without a non-empty seen-jobs set the
\* input comes back; with one, the loop calls has_seen on a set object,
\* which raises AttributeError at the first record.
filter_new_internships(truthy, internships) ==
    IF ~truthy THEN Returned(internships)
    ELSE IF internships = <<>> THEN Returned(<<>>)
    ELSE Raised

\* BaseFetcher.mark_internships_seen: returns early without a non-empty
\* seen-jobs set; with one, mark_seen is called on a set object and raises.
mark_internships_seen(truthy, internships) ==
    IF ~truthy THEN Returned(<<>>)
    ELSE IF internships = <<>> THEN Returned(<<>>)
    ELSE Raised

\* fetch() of an adapter: `parsed` are the records parsed from the
\* provider's answer, `err` an error raised inside fetch() before the
\* filtering. RssFetcher.fetch has no try/except; RemotiveFetcher.fetch and
\* InternshalaFetcher.fetch catch everything and return [];
\* InternshalaFetcher.fetch also marks the new records as seen.
Fetch(f, parsed, err, truthy) ==
    LET new == filter_new_internships(truthy, parsed)
        marked == IF new.kind = "return" /\ new.value # <<>>
                  THEN mark_internships_seen(truthy, new.value)
                  ELSE Returned(<<>>)
    IN  CASE f = "rss" ->
               IF err THEN Raised ELSE new
          [] f = "remotive" ->
               IF err \/ new.kind = "raise" THEN Returned(<<>>) ELSE new
          [] f = "internshala" ->
               IF err \/ new.kind = "raise" \/ marked.kind = "raise"
               THEN Returned(<<>>) ELSE new

\* _process_fetcher: `internships or []`, and [] when fetch() raised.
ProcessFetcher(outcome) ==
    IF outcome.kind = "raise" THEN <<>> ELSE outcome.value

\* BaseFetcher.initialize returns True, or False when it failed before the
\* seen-jobs set was taken; InternshalaFetcher.initialize ignores that
\* result, opens its session and returns None, or raises.
InitOutcomes(f) ==
    IF f = "internshala" THEN {"ok", "base_failed", "raise"}
    ELSE {"ok", "base_failed"}

KeepsEveryFetcher(f, outcome) == TRUE

\* initialize(): whether the adapter stays in self.fetchers.
KeepsFetcher(f, outcome) ==
    IF f = "internshala" THEN outcome # "raise" ELSE outcome = "ok"

\* What initialize() of adapter f hands to the loop of the bot: the value
\* of BaseFetcher.initialize, or None from InternshalaFetcher.initialize.
InitReturn(f, outcome) ==
    IF f = "internshala" THEN (IF outcome = "raise" THEN "raise" ELSE "None")
    ELSE IF outcome = "ok" THEN "True" ELSE "False"

\* cleanup(): the adapters whose cleanup() is called.
CleanupTargets(fs) == {fs[k] : k \in 1..Len(fs)}

EscapesAlsoSink(site) == site \in {"step", "sink"}

EscapesAlsoRemoteRead(site) == site \in {"step", "hydrate_remote"}

EscapesAlsoLocalRead(site) == site \in {"step", "hydrate_local"}

\* Whether a failure at a site of run() reaches `except Exception: raise`
\* of run(). The reads and writes of the two tiers, the initialize() and
\* fetch() of an adapter and the post to the sink each sit in a try/except
\* that logs; "step" is any other statement of the try body of run().
Escapes(site) == site = "step"

\* The failure, among those of one step, that run() re-raises.
Thrown(sites) ==
    IF \E x \in sites : Escapes(x) THEN CHOOSE x \in sites : Escapes(x)
    ELSE "none"

AfterExceptionNoFinally == "done"

\* run(): `finally: await self.cleanup()`.
AfterException == "cleanup"

\* Where run() goes after a step in which `sites` failed.
Continue(sites, normal) ==
    IF Thrown(sites) # "none" THEN AfterException ELSE normal

RECURSIVE Concat(_, _)
\* all_jobs.extend(r) for the results at positions k..Len(results).
Concat(results, k) ==
    IF k > Len(results) THEN <<>> ELSE results[k] \o Concat(results, k + 1)

RECURSIVE ConcatUntilEmpty(_, _)
ConcatUntilEmpty(results, k) ==
    IF k > Len(results) \/ results[k] = <<>> THEN <<>>
    ELSE results[k] \o ConcatUntilEmpty(results, k + 1)

MergeReversed(results) ==
    Concat([k \in 1..Len(results) |-> results[Len(results) + 1 - k]], 1)

MergeUntilEmpty(results) == ConcatUntilEmpty(results, 1)

\* fetch_all_internships: the loop over the results of asyncio.gather,
\* which come in the order of the task list.
MergeResults(results) == Concat(results, 1)

NextAfterDedupNoSummary(all, fr) ==
    IF all = <<>> THEN "cleanup"
    ELSE IF fr # <<>> THEN "save" ELSE "summary"

\* run(): where control goes after the fetch and the dedup loop.
NextAfterDedup(all, fr) ==
    IF all = <<>> THEN "summary"
    ELSE IF fr # <<>> THEN "save" ELSE "summary"

SaveStepsStopOnRemoteFailure(remoteOk) ==
    IF remoteOk THEN {"add", "write_local"} ELSE {}

\* save_internship: the statements after the Firestore write, which run
\* whether it succeeded or its try/except logged a failure.
SaveSteps(remoteOk) == {"add", "write_local"}

NextAfterSaveFirstOnly(idx, fr) == "notify"

\* run(): `for inst in fresh: await self.save_internship(inst)`, then the
\* notification.
NextAfterSave(idx, fr) == IF idx > Len(fr) THEN "notify" ELSE "save"

NextAfterSendStopOnFailure(idx, n, outcome) ==
    IF outcome # "ok" \/ idx > n THEN "cleanup" ELSE "send"

\* send_telegram_notification: `for chunk in chunks`, whatever the post of
\* the chunk before did.
NextAfterSend(idx, n, outcome) == IF idx > n THEN "cleanup" ELSE "send"

(* --------------------------- the retrying GET ------------------------- *)

\* The adapters with a retrying GET: RemoteOKFetcher._fetch_jobs,
\* RemotiveFetcher._fetch_jobs and WWRFetcher._fetch_feed.
RetryAdapters == {"remoteok", "remotive", "wwr"}

\* What one GET with its decoding can do: an answer of the expected shape,
\* an answer of another shape, a transport error or a non-200 status, a
\* body that is no JSON, and an exception of another class (a body that is
\* no valid text raises UnicodeDecodeError from response.json()).
GetOutcomes == {"ok", "unexpected", "http_error", "bad_json", "other_error"}

\* The outcomes on which the try body reaches a return statement.
Answered == {"ok", "unexpected"}

\* The except clause of the loop: (httpx.HTTPError, json.JSONDecodeError)
\* in RemoteOK and Remotive, Exception in WWR, where a non-200 status is
\* raised as ClientError inside the try.
Caught(adapter, outcome) ==
    \/ outcome \in {"http_error", "bad_json"}
    \/ adapter = "wwr" /\ outcome = "other_error"

\* What the loop body returns on an answer: data[1:] or data['jobs'], []
\* for another shape; WWR returns whatever feedparser made of the body.
Answer(adapter, outcome) ==
    IF outcome = "ok" \/ adapter = "wwr" THEN "data" ELSE "empty"

TwiceAttempt(n) == 2 * n

RECURSIVE Pow2(_)
\* wait_time = 2 ** attempt
Pow2(n) == IF n = 0 THEN 1 ELSE 2 * Pow2(n - 1)

LoopContinuesOnceMore(attempt, max_retries) == attempt + 1 < max_retries + 2

\* for attempt in range(self.max_retries + 1): there is a pass after the
\* pass `attempt`.
LoopContinues(attempt, max_retries) == attempt + 1 < max_retries + 1

\* if attempt < self.max_retries: await asyncio.sleep(wait_time)
SleepsAfter(attempt, max_retries) == attempt < max_retries

\* No retrying GET is running.
NoRetry == [pc |-> "idle"]

\* The locals of the retrying GET of an adapter when the loop is entered.
StartRetry(adapter, max_retries) ==
    [pc |-> "get", adapter |-> adapter, max_retries |-> max_retries,
     attempt |-> 0, log |-> <<>>, slept |-> <<>>, result |-> "none"]

(* ------------------------------- state -------------------------------- *)

VARIABLES
    remote,          \* document ids of the Firestore collection "internships"
    localFile,       \* seen_urls.json
    seenJobsFile,    \* seen_jobs.json, as a set of URLs
    hasCreds,        \* TELEGRAM_BOT_TOKEN and TELEGRAM_CHAT_ID are both set
    pc,              \* position of run()
    cycle,           \* number of the current call of run()
    seen_urls,       \* InternshipFinderBot.seen_urls
    fetchers,        \* InternshipFinderBot.fetchers
    seenJobsCache,   \* seen_jobs._seen_jobs_cache
    seen_jobs,       \* per adapter: self.seen_jobs holds the global set
    task,            \* per adapter: state of its _process_fetcher task
    fetched,         \* per adapter: what its fetch() did
    result,          \* per adapter: what its _process_fetcher task returned
    all_jobs,        \* run(): all_internships
    fresh,           \* run(): fresh
    saveIdx,         \* position of the save loop in fresh
    sendIdx,         \* position of the chunk loop
    concurrentAccess,\* seen-set accesses made while another fetch was running
    outOfOrder,      \* a task finished before one listed earlier
    hydLocal,        \* ids read from the local file by the last hydration
    hydRemote,       \* ids returned by Firestore to the last hydration
    hydrated,        \* seen_urls when the last hydration ended
    seenAtLookup,    \* seen_urls when the dedup loop ran
    saved,           \* URLs passed to save_internship in this cycle
    sent,            \* chunks posted to the sink in this cycle
    summaries,       \* daily summaries posted to the sink in this cycle
    persisted,       \* URLs whose Firestore write succeeded in an earlier cycle
    initResult,      \* per adapter: what its initialize() did in this cycle
    cleaned,         \* adapters whose cleanup() was called in this cycle
    exc,             \* the failure that run() re-raised, or "none"
    location_filters,\* config.LOCATION_FILTERS of this deployment
    lastSave,        \* what the two writes of the last save_internship did
    mirrorFailed,    \* a write of seen_urls.json failed in this cycle
    retry,           \* the retrying GET of an adapter
    call,            \* a call of a function of the bot or of the record class
    session          \* the client sessions of the adapters and of the bot

vars == <<remote, localFile, seenJobsFile, hasCreds, pc, cycle, seen_urls,
          fetchers, seenJobsCache, seen_jobs, task, fetched, result, all_jobs,
          fresh, saveIdx, sendIdx, concurrentAccess, outOfOrder, hydLocal,
          hydRemote, hydrated, seenAtLookup, saved, sent, summaries, persisted,
          initResult, cleaned, exc, location_filters, lastSave, mirrorFailed,
          retry, call, session>>

stores == <<remote, localFile, seenJobsFile>>
process == <<seen_urls, fetchers, seenJobsCache, seen_jobs>>
fetchPhase == <<task, fetched, result, concurrentAccess, outOfOrder>>
hydration == <<hydLocal, hydRemote, hydrated>>
outputs == <<saved, sent, summaries>>
ending == <<initResult, cleaned, exc>>
config == <<hasCreds, location_filters>>
io == <<lastSave, mirrorFailed>>

FetcherNames == {AllFetchers[k] : k \in 1..Len(AllFetchers)}
Range(seq) == {seq[k] : k \in 1..Len(seq)}

\* The files and the collection a run can find: nothing yet, a seen-jobs
\* file left by an older version, an unreadable mirror, the tiers left
\* by earlier runs that recorded U1, and that collection seen from a
\* checkout without the local file.
InitStores ==
    { [local |-> NoFile, docs |-> {}, jobs |-> {}],
      [local |-> NoFile, docs |-> {EncodeDocId(U1)}, jobs |-> {}],
      [local |-> NoFile, docs |-> {}, jobs |-> {U1}],
      [local |-> CorruptFile, docs |-> {}, jobs |-> {}],
      [local |-> ListFile({U1, EncodeDocId(U1)}), docs |-> {EncodeDocId(U1)},
       jobs |-> {}] }

\* The per-adapter tables before any task exists.
NoTasks == [f \in FetcherNames |-> "idle"]
NoOutcomes == [f \in FetcherNames |-> Returned(<<>>)]
NoResults == [f \in FetcherNames |-> <<>>]
NoSeenJobs == [f \in FetcherNames |-> FALSE]
NoInit == [f \in FetcherNames |-> "none"]
NoSave == [remote |-> "none", local |-> "none"]

\* The owners of a client session: the adapters and, for the sink, the bot.
SessionOwners == FetcherNames \cup {"bot"}

\* The sessions of a new process: RssFetcher and InternshalaFetcher are
\* constructed with self.session = None, the bot with aiohttp_session = None.
NoSessions == [w \in SessionOwners |-> "none"]

\* initialize() of the bot: InternshalaFetcher.initialize opens a session
\* after BaseFetcher.initialize, whatever that returned, unless opening it
\* raises; BaseFetcher.initialize opens none; the bot opens the session of
\* the sink after the loop over the adapters.
SessionAfterInitialize(owner, before, listed, outcome) ==
    CASE owner = "bot" -> "open"
      [] owner = "internshala" ->
            IF listed /\ outcome # "raise" THEN "open" ELSE before
      [] OTHER -> before

\* fetch(): RssFetcher.fetch opens a session when it has none and leaves
\* it open; InternshalaFetcher.fetch uses the one of initialize.
SessionInFetch(owner, before) ==
    IF owner = "rss" /\ before # "open" THEN "open" ELSE before

\* cleanup() of the bot: BaseFetcher.cleanup closes no session;
\* InternshalaFetcher.cleanup closes the one of the adapter; the bot closes
\* the session of the sink.
SessionAfterCleanup(owner, before, listed) ==
    CASE owner = "bot" -> IF before = "open" THEN "closed" ELSE before
      [] owner = "internshala" ->
            IF listed /\ before = "open" THEN "closed" ELSE before
      [] OTHER -> before

\* No function is being called on its own.
NoCall == [fn |-> "none"]

Init ==
    /\ \E s \in InitStores :
         localFile = s.local /\ remote = s.docs /\ seenJobsFile = s.jobs
    /\ hasCreds \in BOOLEAN
    /\ cycle = 1
    /\ persisted = {}
    /\ pc = "start"
    /\ seen_urls = {}
    /\ fetchers = AllFetchers
    /\ seenJobsCache = {}
    /\ seen_jobs = NoSeenJobs
    /\ task = NoTasks
    /\ fetched = NoOutcomes
    /\ result = NoResults
    /\ all_jobs = <<>>
    /\ fresh = <<>>
    /\ saveIdx = 1
    /\ sendIdx = 1
    /\ concurrentAccess = {}
    /\ outOfOrder = FALSE
    /\ hydLocal = {}
    /\ hydRemote = {}
    /\ hydrated = {}
    /\ seenAtLookup = {}
    /\ saved = <<>>
    /\ sent = <<>>
    /\ summaries = 0
    /\ initResult = NoInit
    /\ cleaned = {}
    /\ exc = "none"
    /\ location_filters = LOCATION_FILTERS
    /\ lastSave = NoSave
    /\ mirrorFailed = FALSE
    /\ retry = NoRetry
    /\ call = NoCall
    /\ session = NoSessions

(* ------------------------------ actions ------------------------------- *)

\* initialize(): _load_seen_urls. The local file is read, the Firestore
\* ids are merged in, and a merged set that grew is written back.
Hydrate ==
    /\ pc = "start"
    /\ \E remoteOk \in BOOLEAN, w \in WriteOutcomes :
         LET local     == LocalView(localFile)
             loaded    == localFile.kind = "list"
             ids       == FetchIds(remote, remoteOk)
             merged    == LoadSeenUrls(seen_urls, local, ids)
             new_count == Cardinality(merged) - Cardinality(local)
             failed    == {x \in {"hydrate_local", "hydrate_remote", "hydrate_write"} :
                             \/ x = "hydrate_local" /\ localFile.kind = "corrupt"
                             \/ x = "hydrate_remote" /\ ~remoteOk
                             \/ x = "hydrate_write" /\ ids # {} /\ loaded
                                   /\ new_count > 0 /\ w = "denied"}
         IN  /\ seen_urls' = merged
             /\ localFile' = IF ids # {} /\ loaded /\ new_count > 0
                             THEN WriteLocal(localFile, merged, w)
                             ELSE localFile
             /\ hydLocal' = local
             /\ hydRemote' = ids
             /\ hydrated' = merged
             /\ pc' = Continue(failed, "init")
             /\ exc' = Thrown(failed)
             /\ mirrorFailed' = (mirrorFailed \/ "hydrate_write" \in failed)
    /\ UNCHANGED <<remote, seenJobsFile, config, retry, call, session, lastSave, cycle, fetchers,
                   seenJobsCache, seen_jobs, fetchPhase, all_jobs, fresh,
                   saveIdx, sendIdx, seenAtLookup, outputs, persisted,
                   initResult, cleaned>>

\* initialize(): the loop over self.fetchers, then fetch_all_internships
\* creates one _process_fetcher task per remaining adapter.
InitFetchers ==
    /\ pc = "init"
    /\ \E o \in [FetcherNames -> {"ok", "base_failed", "raise"}] :
         /\ \A f \in FetcherNames :
              o[f] \in (IF f \in Range(fetchers) THEN InitOutcomes(f) ELSE {"ok"})
         /\ LET reached == {f \in Range(fetchers) : o[f] # "base_failed"}
                kept    == SelectSeq(fetchers, LAMBDA f : KeepsFetcher(f, o[f]))
                failed  == {x \in {"setup"} :
                               \E f \in Range(fetchers) : o[f] # "ok"}
            IN  /\ seenJobsCache' = IF reached # {}
                                    THEN get_seen_jobs(seenJobsCache, seenJobsFile)
                                    ELSE seenJobsCache
                /\ seen_jobs' = [f \in FetcherNames |->
                                    seen_jobs[f] \/ f \in reached]
                /\ fetchers' = kept
                /\ initResult' = [f \in FetcherNames |->
                                     IF f \in Range(fetchers) THEN o[f] ELSE "none"]
                /\ task' = [f \in FetcherNames |->
                               IF f \in Range(kept) /\ Thrown(failed) = "none"
                               THEN "running" ELSE "idle"]
                /\ session' = [w \in SessionOwners |->
                                  SessionAfterInitialize(w, session[w],
                                      w \in Range(fetchers),
                                      IF w \in FetcherNames THEN o[w]
                                      ELSE "ok")]
                /\ pc' = Continue(failed, "fetch")
                /\ exc' = Thrown(failed)
    /\ UNCHANGED <<stores, config, retry, call, io, cycle, seen_urls, fetched, result,
                   concurrentAccess, outOfOrder, all_jobs, fresh, saveIdx,
                   sendIdx, hydration, seenAtLookup, outputs, persisted,
                   cleaned>>

\* The fetch() of adapter f ends: it returns its records or raises, and
\* _process_fetcher turns either into a list.
FetchReturn(f) ==
    /\ pc = "fetch"
    /\ task[f] = "running"
    /\ \E err \in BOOLEAN :
       \E parsed \in (IF err THEN {<<>>} ELSE SeqsUpTo(PoolOf(f), MaxFetch)) :
         LET truthy  == SeenJobsTruthy(seen_jobs[f], seenJobsCache)
             outcome == Fetch(f, parsed, err, truthy)
             others  == {g \in FetcherNames \ {f} : task[g] \in {"running", "hung"}}
             earlier == {fetchers[k] : k \in {j \in 1..Len(fetchers) :
                            \E m \in (j + 1)..Len(fetchers) : fetchers[m] = f}}
         IN  /\ fetched' = [fetched EXCEPT ![f] = outcome]
             /\ result' = [result EXCEPT ![f] = ProcessFetcher(outcome)]
             /\ task' = [task EXCEPT ![f] =
                            IF outcome.kind = "raise" THEN "raised" ELSE "returned"]
             /\ concurrentAccess' =
                    IF ~err /\ seen_jobs[f] /\ others # {}
                    THEN concurrentAccess \cup {[who |-> f, op |-> "read"]}
                    ELSE concurrentAccess
             /\ session' = [session EXCEPT ![f] = SessionInFetch(f, @)]
             /\ outOfOrder' = (outOfOrder \/ \E g \in earlier : task[g] = "running")
    /\ UNCHANGED <<ending, stores, config, retry, call, io, pc, cycle, process, all_jobs, fresh,
                   saveIdx, sendIdx, hydration, seenAtLookup, outputs, persisted>>

\* The fetch() of adapter f never returns: nothing in _process_fetcher or
\* fetch_all_internships bounds the await.
FetchHang(f) ==
    /\ pc = "fetch"
    /\ task[f] = "running"
    /\ task' = [task EXCEPT ![f] = "hung"]
    /\ session' = [session EXCEPT ![f] = SessionInFetch(f, @)]
    /\ UNCHANGED <<ending, stores, config, retry, call, io, pc, cycle, process, fetched, result,
                   concurrentAccess, outOfOrder, all_jobs, fresh, saveIdx,
                   sendIdx, hydration, seenAtLookup, outputs, persisted>>

\* fetch_all_internships: asyncio.gather returns once every task is done,
\* and the results are merged.
FanIn ==
    /\ pc = "fetch"
    /\ \A f \in Range(fetchers) : task[f] \in {"returned", "raised"}
    /\ all_jobs' = MergeResults([k \in 1..Len(fetchers) |-> result[fetchers[k]]])
    /\ pc' = "merged"
    /\ UNCHANGED <<ending, stores, config, retry, call, session, io, cycle, process, fetchPhase, fresh,
                   saveIdx, sendIdx, hydration, seenAtLookup, outputs, persisted>>

\* run(): the early return on an empty list, else the three filters and
\* the dedup loop. The tasks of the fetch phase are gone. all_internships
\* is not read after this step: the steps that follow forget it.
FilterAndDedup ==
    /\ pc = "merged"
    /\ LET fr == IF all_jobs = <<>> THEN <<>>
                 ELSE FreshOf(RelevanceFilter(all_jobs, location_filters),
                              seen_urls)
       IN  /\ fresh' = fr
           /\ pc' = NextAfterDedup(all_jobs, fr)
    /\ seenAtLookup' = seen_urls
    /\ saveIdx' = 1
    /\ task' = NoTasks
    /\ fetched' = NoOutcomes
    /\ result' = NoResults
    /\ concurrentAccess' = {}
    /\ outOfOrder' = FALSE
    /\ UNCHANGED <<ending, stores, config, retry, call, session, io, cycle, process, all_jobs, sendIdx,
                   hydration, outputs, persisted>>

\* save_internship(fresh[saveIdx]): the Firestore write, the in-memory add
\* and the rewrite of the local file; neither failure is raised.
SaveInternship ==
    /\ pc = "save"
    /\ saveIdx <= Len(fresh)
    /\ \E remoteOk \in BOOLEAN, w \in WriteOutcomes :
         LET url == fresh[saveIdx].url
             steps == SaveSteps(remoteOk)
             added == IF "add" \in steps THEN seen_urls \cup {url} ELSE seen_urls
             failed == {x \in {"save_remote", "save_local"} :
                          \/ x = "save_remote" /\ ~remoteOk
                          \/ x = "save_local" /\ "write_local" \in steps
                                /\ w = "denied"}
         IN  /\ remote' = IF remoteOk THEN remote \cup {EncodeDocId(url)} ELSE remote
             /\ persisted' = IF remoteOk THEN persisted \cup {url} ELSE persisted
             /\ seen_urls' = added
             /\ localFile' = IF "write_local" \in steps
                             THEN WriteLocal(localFile, added, w) ELSE localFile
             /\ lastSave' = [remote |-> IF remoteOk THEN "ok" ELSE "failed",
                             local |-> IF "write_local" \in steps THEN w
                                       ELSE "none"]
             /\ mirrorFailed' = (mirrorFailed \/ "save_local" \in failed)
             /\ saved' = Append(saved, url)
             /\ pc' = Continue(failed, NextAfterSave(saveIdx + 1, fresh))
             /\ exc' = Thrown(failed)
    /\ saveIdx' = saveIdx + 1
    /\ all_jobs' = <<>>
    /\ UNCHANGED <<initResult, cleaned, seenJobsFile, config, retry, call, session, cycle, fetchers, seenJobsCache,
                   seen_jobs, fetchPhase, fresh, sendIdx, hydration,
                   seenAtLookup, sent, summaries>>

\* send_telegram_notification: the checks before the chunk loop.
BeginNotify ==
    /\ pc = "notify"
    /\ pc' = IF fresh = <<>> \/ ~hasCreds THEN "cleanup" ELSE "send"
    /\ sendIdx' = 1
    /\ UNCHANGED <<ending, stores, config, retry, call, session, io, cycle, process, fetchPhase, all_jobs,
                   fresh, saveIdx, hydration, seenAtLookup, outputs, persisted>>

SendOutcomes == {"ok", "http_error", "exception"}

\* send_telegram_notification: one pass of the chunk loop; a non-200 answer
\* and an exception are logged.
SendChunk ==
    /\ pc = "send"
    /\ LET chunks == chunk_list(fresh, ChunkSize)
       IN  /\ sendIdx <= Len(chunks)
           /\ \E outcome \in SendOutcomes :
                LET failed == {x \in {"sink"} : outcome = "exception"}
                IN  /\ sent' = Append(sent, [chunk |-> chunks[sendIdx],
                                             outcome |-> outcome])
                    /\ pc' = Continue(failed, NextAfterSend(sendIdx + 1,
                                                            Len(chunks), outcome))
                    /\ exc' = Thrown(failed)
    /\ sendIdx' = sendIdx + 1
    /\ UNCHANGED <<initResult, cleaned, stores, config, retry, call, session, io, cycle, process, fetchPhase, all_jobs,
                   fresh, saveIdx, hydration, seenAtLookup, saved, summaries,
                   persisted>>

\* send_daily_summary_notification: one post, unless the credentials miss.
SendSummary ==
    /\ pc = "summary"
    /\ summaries' = IF hasCreds THEN summaries + 1 ELSE summaries
    /\ pc' = "cleanup"
    /\ UNCHANGED <<ending, stores, config, retry, call, session, io, cycle, process, fetchPhase, all_jobs,
                   fresh, saveIdx, sendIdx, hydration, seenAtLookup, saved,
                   sent, persisted>>

\* cleanup(): BaseFetcher.cleanup of every adapter in self.fetchers; with a
\* non-empty seen-jobs set it calls cleanup_seen_jobs, then close_seen_jobs
\* writes the set to seen_jobs.json.
Cleanup ==
    /\ pc = "cleanup"
    /\ \E old \in SUBSET seenJobsCache :
         LET truthy == \E f \in Range(fetchers) :
                          SeenJobsTruthy(seen_jobs[f], seenJobsCache)
             kept   == IF truthy
                       THEN cleanup_seen_jobs(seenJobsCache, SeenJobsDb, old)
                       ELSE seenJobsCache
         IN  /\ seenJobsCache' = kept
             /\ seenJobsFile' = IF truthy THEN kept ELSE seenJobsFile
    /\ cleaned' = CleanupTargets(fetchers)
    /\ session' = [w \in SessionOwners |->
                      SessionAfterCleanup(w, session[w],
                                          w \in CleanupTargets(fetchers))]
    /\ pc' = "done"
    /\ all_jobs' = <<>>
    /\ UNCHANGED <<remote, localFile, config, retry, call, io, cycle, seen_urls,
                   fetchers, seen_jobs, fetchPhase,
                   fresh, saveIdx, sendIdx, hydration, seenAtLookup, outputs,
                   persisted, initResult, exc>>

\* A statement of run() outside the inner handlers raises: building the
\* dicts for the filters, or formatting the message of a chunk. run() logs,
\* runs cleanup() and re-raises; its locals and the finished tasks are gone.
StepRaises ==
    /\ pc \in {"merged", "send"}
    /\ exc' = Thrown({"step"})
    /\ pc' = AfterException
    /\ task' = NoTasks
    /\ fetched' = NoOutcomes
    /\ result' = NoResults
    /\ concurrentAccess' = {}
    /\ outOfOrder' = FALSE
    /\ all_jobs' = <<>>
    /\ UNCHANGED <<stores, config, retry, call, session, io, cycle, process, fresh, saveIdx, sendIdx,
                   hydration, seenAtLookup, outputs, persisted, initResult,
                   cleaned>>

\* The locals of run() and the records of what a cycle did, at its start.
CycleStart ==
    /\ pc' = "start"
    /\ task' = NoTasks
    /\ fetched' = NoOutcomes
    /\ result' = NoResults
    /\ all_jobs' = <<>>
    /\ fresh' = <<>>
    /\ saveIdx' = 1
    /\ sendIdx' = 1
    /\ concurrentAccess' = {}
    /\ outOfOrder' = FALSE
    /\ hydLocal' = {}
    /\ hydRemote' = {}
    /\ hydrated' = {}
    /\ seenAtLookup' = {}
    /\ saved' = <<>>
    /\ sent' = <<>>
    /\ summaries' = 0
    /\ initResult' = NoInit
    /\ cleaned' = {}
    /\ exc' = "none"
    /\ lastSave' = NoSave
    /\ mirrorFailed' = FALSE

\* main.py: the next scheduled run, a new process with a new bot.
Restart ==
    /\ pc = "done"
    /\ cycle < MaxCycles
    /\ cycle' = cycle + 1
    /\ seen_urls' = {}
    /\ fetchers' = AllFetchers
    /\ seenJobsCache' = {}
    /\ seen_jobs' = NoSeenJobs
    /\ session' = NoSessions
    /\ CycleStart
    /\ UNCHANGED <<stores, config, retry, call, persisted>>

\* run() called again on the same bot object.
Rerun ==
    /\ pc = "done"
    /\ cycle < MaxCycles
    /\ cycle' = cycle + 1
    /\ CycleStart
    /\ UNCHANGED <<stores, config, retry, call, session, process, persisted>>

Next ==
    \/ Hydrate
    \/ InitFetchers
    \/ \E f \in FetcherNames : FetchReturn(f)
    \/ \E f \in FetcherNames : FetchHang(f)
    \/ FanIn
    \/ FilterAndDedup
    \/ SaveInternship
    \/ BeginNotify
    \/ SendChunk
    \/ SendSummary
    \/ Cleanup
    \/ StepRaises
    \/ Restart
    \/ Rerun

Spec == Init /\ [][Next]_vars

(* ------------------------- the relevance filter ----------------------- *)

\* run() when fetch_all_internships has returned, in a first cycle: the
\* Internshala adapter returned the merged list, the RSS adapter nothing,
\* and the hydration found nothing or U1.
InitFilter ==
    /\ all_jobs \in SeqsUpTo(FilterPool, MaxFilter)
    /\ \E seen \in {{}, {U1}} :
         /\ seen_urls = seen
         /\ hydLocal = seen
         /\ hydrated = seen
         /\ localFile = (IF seen = {} THEN NoFile ELSE ListFile(seen))
    /\ remote = {}
    /\ hydRemote = {}
    /\ persisted = {}
    /\ seenJobsFile = {}
    /\ hasCreds \in BOOLEAN
    /\ cycle = 1
    /\ pc = "merged"
    /\ fetchers = AllFetchers
    /\ seenJobsCache = {}
    /\ seen_jobs = [f \in FetcherNames |-> TRUE]
    /\ task = [f \in FetcherNames |-> "returned"]
    /\ fetched = [f \in FetcherNames |->
                     IF f = "internshala" THEN Returned(all_jobs) ELSE Returned(<<>>)]
    /\ result = [f \in FetcherNames |->
                    IF f = "internshala" THEN all_jobs ELSE <<>>]
    /\ fresh = <<>>
    /\ saveIdx = 1
    /\ sendIdx = 1
    /\ concurrentAccess = {}
    /\ outOfOrder = FALSE
    /\ seenAtLookup = {}
    /\ saved = <<>>
    /\ sent = <<>>
    /\ summaries = 0
    /\ initResult = [f \in FetcherNames |-> "ok"]
    /\ cleaned = {}
    /\ exc = "none"
    /\ location_filters \in {<<>>, LOCATION_FILTERS}
    /\ lastSave = NoSave
    /\ mirrorFailed = FALSE
    /\ retry = NoRetry
    /\ call = NoCall
    /\ session = [w \in SessionOwners |-> "open"]

NextFilter ==
    \/ FilterAndDedup
    \/ SaveInternship
    \/ BeginNotify
    \/ SendChunk
    \/ SendSummary
    \/ StepRaises
    \/ Cleanup

SpecFilter == InitFilter /\ [][NextFilter]_vars

(* ----------------------- the notification batcher --------------------- *)

\* run() at the call of send_telegram_notification(fresh) in a first cycle
\* that found both tiers empty: n fresh records were returned by the
\* adapters, passed the filters and were handed to save_internship.
InitBatch ==
    /\ \E n \in 1..MaxBatch :
         /\ fresh = [i \in 1..n |-> BatchRec(i)]
         /\ saved = [i \in 1..n |-> BatchUrl(i)]
         /\ seen_urls = {BatchUrl(i) : i \in 1..n}
         /\ \E ok \in BOOLEAN :
              /\ remote = (IF ok THEN {EncodeDocId(BatchUrl(i)) : i \in 1..n} ELSE {})
              /\ persisted = (IF ok THEN {BatchUrl(i) : i \in 1..n} ELSE {})
              /\ lastSave = [remote |-> IF ok THEN "ok" ELSE "failed",
                             local |-> "denied"]
         /\ saveIdx = n + 1
    /\ localFile = NoFile
    /\ seenJobsFile = {}
    /\ hasCreds \in BOOLEAN
    /\ cycle = 1
    /\ pc = "notify"
    /\ fetchers = AllFetchers
    /\ seenJobsCache = {}
    /\ seen_jobs = [f \in FetcherNames |-> TRUE]
    /\ task = NoTasks
    /\ fetched = NoOutcomes
    /\ result = NoResults
    /\ all_jobs = <<>>
    /\ sendIdx = 1
    /\ concurrentAccess = {}
    /\ outOfOrder = FALSE
    /\ hydLocal = {}
    /\ hydRemote = {}
    /\ hydrated = {}
    /\ seenAtLookup = {}
    /\ sent = <<>>
    /\ summaries = 0
    /\ initResult = [f \in FetcherNames |-> "ok"]
    /\ cleaned = {}
    /\ exc = "none"
    /\ location_filters = LOCATION_FILTERS
    /\ mirrorFailed = TRUE
    /\ retry = NoRetry
    /\ call = NoCall
    /\ session = [w \in SessionOwners |-> "open"]

NextBatch ==
    \/ BeginNotify
    \/ SendChunk
    \/ StepRaises
    \/ Cleanup

SpecBatch == InitBatch /\ [][NextBatch]_vars

(* ------------------- the retrying GET of an adapter ------------------- *)

\* The variables of the bot, which the retrying GET of an adapter leaves
\* alone.
bot == <<remote, localFile, seenJobsFile, hasCreds, pc, cycle, seen_urls,
         fetchers, seenJobsCache, seen_jobs, task, fetched, result, all_jobs,
         fresh, saveIdx, sendIdx, concurrentAccess, outOfOrder, hydLocal,
         hydRemote, hydrated, seenAtLookup, saved, sent, summaries, persisted,
         initResult, cleaned, exc, location_filters, lastSave, mirrorFailed,
         session>>

\* The fetch phase of a first cycle over empty tiers, at the moment the
\* fetch() of an adapter enters its retrying GET.
InitRetry ==
    /\ \E adapter \in RetryAdapters, max_retries \in 0..MaxRetriesCap :
         retry = StartRetry(adapter, max_retries)
    /\ localFile = NoFile
    /\ remote = {}
    /\ seenJobsFile = {}
    /\ hasCreds = TRUE
    /\ cycle = 1
    /\ persisted = {}
    /\ pc = "fetch"
    /\ seen_urls = {}
    /\ fetchers = AllFetchers
    /\ seenJobsCache = {}
    /\ seen_jobs = [f \in FetcherNames |-> TRUE]
    /\ task = [f \in FetcherNames |-> "running"]
    /\ fetched = NoOutcomes
    /\ result = NoResults
    /\ all_jobs = <<>>
    /\ fresh = <<>>
    /\ saveIdx = 1
    /\ sendIdx = 1
    /\ concurrentAccess = {}
    /\ outOfOrder = FALSE
    /\ hydLocal = {}
    /\ hydRemote = {}
    /\ hydrated = {}
    /\ seenAtLookup = {}
    /\ saved = <<>>
    /\ sent = <<>>
    /\ summaries = 0
    /\ initResult = [f \in FetcherNames |-> "ok"]
    /\ cleaned = {}
    /\ exc = "none"
    /\ location_filters = LOCATION_FILTERS
    /\ lastSave = NoSave
    /\ mirrorFailed = FALSE
    /\ call = NoCall
    /\ session = [w \in SessionOwners |->
                    IF w = "rss" THEN "none" ELSE "open"]

\* A pass of the loop whose GET is answered: the function returns.
GetReturns ==
    /\ retry.pc = "get"
    /\ \E outcome \in Answered :
         retry' = [retry EXCEPT !.log = Append(@, outcome),
                                !.pc = "returned",
                                !.result = Answer(retry.adapter, outcome)]
    /\ UNCHANGED <<bot, call>>

\* A pass of the loop whose GET raises an exception that the except clause
\* catches: the sleep unless it was the last pass, then the next pass, or
\* the `return []` after the loop.
GetFails ==
    /\ retry.pc = "get"
    /\ \E outcome \in GetOutcomes :
         /\ outcome \notin Answered
         /\ Caught(retry.adapter, outcome)
         /\ retry' =
              [retry EXCEPT
                 !.log = Append(@, outcome),
                 !.slept = IF SleepsAfter(retry.attempt, retry.max_retries)
                           THEN Append(@, Pow2(retry.attempt)) ELSE @,
                 !.attempt = @ + 1,
                 !.pc = IF LoopContinues(retry.attempt, retry.max_retries)
                        THEN "get" ELSE "returned",
                 !.result = IF LoopContinues(retry.attempt, retry.max_retries)
                            THEN "none" ELSE "empty"]
    /\ UNCHANGED <<bot, call>>

\* A pass of the loop whose GET raises an exception that the except clause
\* does not name: it leaves the function.
GetEscapes ==
    /\ retry.pc = "get"
    /\ \E outcome \in GetOutcomes :
         /\ outcome \notin Answered
         /\ ~Caught(retry.adapter, outcome)
         /\ retry' = [retry EXCEPT !.log = Append(@, outcome),
                                   !.pc = "raised"]
    /\ UNCHANGED <<bot, call>>

NextRetry ==
    \/ GetReturns
    \/ GetFails
    \/ GetEscapes

\* Every GET ends within the timeout of its session and every sleep ends,
\* so a pass that has begun is completed.
SpecRetry == InitRetry /\ [][NextRetry]_vars /\ WF_vars(NextRetry)

(* ---------------------- the keys of the remote tier ------------------- *)

\* A URL of n characters, all but the scheme the character c.
UrlOfLength(n, c) == <<"h", ":">> \o [i \in 1..(n - 2) |-> c]

\* The URLs whose records are written to the collection: short ones that
\* differ in one character, safe or not, and ones at and beyond the length
\* at which the document id becomes a digest.
KeyUrls ==
    {U1, U2, <<"h", "_", "a">>, <<"h", "/", "a">>, BatchUrl(1),
     UrlOfLength(DocIdMaxLen, "a"), UrlOfLength(DocIdMaxLen + 1, "a"),
     UrlOfLength(DocIdMaxLen + 1, "b"), UrlOfLength(DocIdMaxLen + 2, "a")}

\* The bot after its construction, with empty tiers, all adapters listed
\* and no cycle begun.
BotConstructed ==
    /\ localFile = NoFile
    /\ remote = {}
    /\ seenJobsFile = {}
    /\ hasCreds = TRUE
    /\ cycle = 1
    /\ persisted = {}
    /\ pc = "start"
    /\ seen_urls = {}
    /\ fetchers = AllFetchers
    /\ seenJobsCache = {}
    /\ seen_jobs = NoSeenJobs
    /\ task = NoTasks
    /\ fetched = NoOutcomes
    /\ result = NoResults
    /\ all_jobs = <<>>
    /\ fresh = <<>>
    /\ saveIdx = 1
    /\ sendIdx = 1
    /\ concurrentAccess = {}
    /\ outOfOrder = FALSE
    /\ hydLocal = {}
    /\ hydRemote = {}
    /\ hydrated = {}
    /\ seenAtLookup = {}
    /\ saved = <<>>
    /\ sent = <<>>
    /\ summaries = 0
    /\ initResult = NoInit
    /\ cleaned = {}
    /\ exc = "none"
    /\ location_filters = LOCATION_FILTERS
    /\ lastSave = NoSave
    /\ mirrorFailed = FALSE
    /\ retry = NoRetry
    /\ session = NoSessions

\* save_internship is about to be called for two records in turn, on a
\* collection without documents.
InitKeys ==
    /\ \E pending \in [1..2 -> KeyUrls] :
         call = [fn |-> "save_internship", pending |-> pending,
                 written |-> <<>>, collection |-> {}]
    /\ BotConstructed

\* save_internship: doc_id = _encode_doc_id(url), then
\* collection.document(doc_id).set(data, merge=True), which creates the
\* document or writes the fields of the record over the ones it holds.
SetDocument ==
    /\ call.fn = "save_internship"
    /\ call.pending # <<>>
    /\ LET url    == Head(call.pending)
           doc_id == EncodeDocId(url)
       IN  call' = [call EXCEPT
                      !.pending = Tail(@),
                      !.written = Append(@, [url |-> url, doc_id |-> doc_id]),
                      !.collection = {d \in @ : d.doc_id # doc_id}
                                        \cup {[doc_id |-> doc_id, url |-> url]}]
    /\ UNCHANGED <<bot, retry>>

(* --------------------------- the record class ------------------------- *)

\* Titles as a provider gives them: clean, padded, and with a control
\* character between two spaces.
RawTitles ==
    {<<"A", "I">>, <<" ", "A", "I", "\n">>, <<"a", " ", Nul, " ", "b">>}

\* The URL of a second posting, by how it relates to the URL of a first.
Vary(url, variation) ==
    CASE variation = "same"           -> url
      [] variation = "whitespace"     -> <<" ">> \o url \o <<"\n">>
      [] variation = "trailing_slash" -> url \o <<"/">>
      [] variation = "scheme_case"    -> <<"H">> \o Tail(url)
      [] variation = "other"          -> url \o <<"b">>

\* An adapter is about to construct the records of two postings.
InitRecords ==
    /\ \E t1 \in RawTitles, t2 \in RawTitles, url \in Urls,
          variation \in {"same", "whitespace", "trailing_slash", "scheme_case",
                         "other"},
          kwargs \in {NoEntries, [stipend |-> <<"5">>]} :
         call = [fn |-> "Internship", pc |-> "construct",
                 variation |-> variation,
                 args |-> <<Args(t1, <<"c", "o">>, India, url, <<"r", "s", "s">>,
                                 Naive(EvalTime - 60), None, kwargs),
                            Args(t2, <<"c", "o">>, India, Vary(url, variation),
                                 <<"r", "s", "s">>, Naive(EvalTime - 60), None,
                                 NoEntries)>>]
    /\ BotConstructed

\* The two constructor calls, then x == y and the two hashes.
ConstructPair ==
    /\ call.fn = "Internship"
    /\ call.pc = "construct"
    /\ LET x == NewInternship(call.args[1])
           y == NewInternship(call.args[2])
       IN  call' = [fn |-> "Internship", pc |-> "constructed",
                    variation |-> call.variation, args |-> call.args,
                    objects |-> <<x, y>>, eq |-> InternshipEq(x, y),
                    hashes |-> <<InternshipHash(x), InternshipHash(y)>>]
    /\ UNCHANGED <<bot, retry>>

\* Internship.from_dict(x.to_dict()) on the first record, and to_dict of
\* the result.
RoundTrip ==
    /\ call.fn = "Internship"
    /\ call.pc = "constructed"
    /\ LET x    == call.objects[1]
           back == from_dict(to_dict(x))
       IN  call' = [fn |-> "from_dict", pc |-> "returned", x |-> x,
                    dict |-> to_dict(x), back |-> back,
                    dict_back |-> to_dict(back)]
    /\ UNCHANGED <<bot, retry>>

(* ------------------- the seen-jobs filter of an adapter --------------- *)

\* An adapter whose initialize() took the seen-jobs set, empty or loaded
\* from seen_jobs.json, is about to filter the records it parsed.
InitFilterNew ==
    /\ \E seen \in SUBSET Urls, internships \in SeqsUpTo({RecA, RecB}, MaxFetch) :
         call = [fn |-> "filter_new_internships", pc |-> "call",
                 seen_jobs |-> seen, internships |-> internships]
    /\ BotConstructed

\* BaseFetcher.filter_new_internships(internships)
FilterNew ==
    /\ call.fn = "filter_new_internships"
    /\ call.pc = "call"
    /\ LET truthy == SeenJobsTruthy(TRUE, call.seen_jobs)
       IN  call' = [fn |-> "filter_new_internships", pc |-> "ended",
                    seen_jobs |-> call.seen_jobs,
                    internships |-> call.internships,
                    outcome |-> filter_new_internships(truthy, call.internships),
                    seen_jobs_before |-> call.seen_jobs,
                    internships_before |-> call.internships]
    /\ UNCHANGED <<bot, retry>>

NextCalls ==
    \/ SetDocument
    \/ ConstructPair
    \/ RoundTrip
    \/ FilterNew

InitCalls ==
    \/ InitKeys
    \/ InitRecords
    \/ InitFilterNew

SpecCalls == InitCalls /\ [][NextCalls]_vars

(* ------------------------------- claims ------------------------------- *)

Count(r, seq) == Cardinality({i \in 1..Len(seq) : seq[i] = r})

\* What fetch() of the adapter at position k of self.fetchers returned, and
\* nothing when it raised.
SuccessAt(k) ==
    IF fetched[fetchers[k]].kind = "return" THEN fetched[fetchers[k]].value
    ELSE <<>>

RECURSIVE Offset(_)
\* Number of records returned by the adapters listed before position k.
Offset(k) == IF k <= 1 THEN 0 ELSE Offset(k - 1) + Len(SuccessAt(k - 1))

\* C1: the fresh batch that run() hands to send_telegram_notification never
\* holds two records with the same URL, so no identity is notified twice in
\* one cycle.
C1_FreshUrlsDistinct ==
    \A i, j \in 1..Len(fresh) : i # j => fresh[i].url # fresh[j].url

\* C2: a record whose URL is in seen_urls when the dedup loop runs is
\* dropped: it is not in fresh, not passed to save_internship and not in a
\* chunk sent in that cycle.
C2_SeenRecordsDropped ==
    /\ \A i \in 1..Len(fresh) : fresh[i].url \notin seenAtLookup
    /\ \A i \in 1..Len(saved) : saved[i] \notin seenAtLookup
    /\ \A k \in 1..Len(sent) : \A i \in 1..Len(sent[k].chunk) :
          sent[k].chunk[i].url \notin seenAtLookup

\* A relevant record with a seen URL arrived next to an unseen one.
C2_Witness ==
    /\ pc = "save"
    /\ fresh # <<>>
    /\ \E i \in 1..Len(RelevanceFilter(all_jobs, location_filters)) :
          RelevanceFilter(all_jobs, location_filters)[i].url \in seenAtLookup

\* C3: a URL that save_internship wrote to Firestore in an earlier cycle is
\* a duplicate after the hydration of a later cycle that read Firestore,
\* whatever the local file holds.
C3_RemoteTierCountsAsSeen ==
    (pc = "init" /\ cycle > 1 /\ hydRemote = remote)
        => \A u \in persisted : is_duplicate(u, seen_urls)

\* C4: after _load_seen_urls the in-memory set is the union of the ids read
\* from the local file and the ids Firestore returned, and nothing else.
C4_HydrationUnion ==
    pc = "init" => seen_urls = hydLocal \cup hydRemote

\* Both tiers hold an id the other lacks, and they share one.
C4_Witness ==
    /\ pc = "init"
    /\ hydLocal \ hydRemote # {}
    /\ hydRemote \ hydLocal # {}
    /\ hydLocal \cap hydRemote # {}

\* C5: fetch_all_internships returns exactly the records of the adapters
\* whose fetch returned, each as often as returned, when others raised.
C5_FanOutIsolation ==
    pc = "merged" =>
        \A f \in FetcherNames : \A r \in PoolOf(f) :
            Count(r, all_jobs) =
                Cardinality({<<k, i>> \in (1..Len(fetchers)) \X (1..MaxFetch) :
                                i <= Len(SuccessAt(k)) /\ SuccessAt(k)[i] = r})

\* The RSS adapter raised and the other adapter's records were merged.
C5_Witness ==
    /\ pc = "merged"
    /\ fetchers = AllFetchers
    /\ fetched["rss"].kind = "raise"
    /\ fetched["internshala"].kind = "return"
    /\ Len(fetched["internshala"].value) = MaxFetch
    /\ all_jobs = fetched["internshala"].value

\* C6: a fetch that never returns is turned into a failure, so the fetch
\* phase can always go on.
C6_HungFetchIsBounded ==
    (\E f \in FetcherNames : task[f] = "hung") => ENABLED Next

\* C7: no seen set is read or written by an adapter while the fetch of
\* another adapter is in flight.
C7_NoDedupAccessDuringFetch == concurrentAccess = {}

\* C8: the merged list is the concatenation of the successful adapters'
\* results in the order of self.fetchers, each in the order returned.
C8_MergeInListOrder ==
    pc = "merged" =>
        /\ Len(all_jobs) = Offset(Len(fetchers) + 1)
        /\ \A k \in 1..Len(fetchers) :
              SubSeq(all_jobs, Offset(k) + 1, Offset(k) + Len(SuccessAt(k)))
                  = SuccessAt(k)

\* The adapter listed last finished first and both returned records.
C8_Witness ==
    /\ pc = "merged"
    /\ outOfOrder
    /\ fetchers = AllFetchers
    /\ fetched["rss"].value # <<>>
    /\ fetched["internshala"].value # <<>>

\* C9: when a chunk is submitted, save_internship has been called for every
\* fresh record, in order, and every fresh URL is in seen_urls.
C9_SavedBeforeFirstChunk ==
    (pc = "send" \/ sent # <<>>) =>
        /\ Len(saved) = Len(fresh)
        /\ \A i \in 1..Len(fresh) :
              saved[i] = fresh[i].url /\ fresh[i].url \in seen_urls

\* A chunk with two different fresh records was submitted.
C9_Witness ==
    /\ sent # <<>>
    /\ Len(fresh) >= 2
    /\ fresh[1].url # fresh[2].url

\* C11: the chunks submitted for n fresh records are ceil(n/5) chunks, all
\* of size 5 but the last, which has 1..5 records, and the i-th fresh
\* record is the record at place (i-1) mod 5 of chunk (i-1) div 5.
C11_ChunksPartitionFresh ==
    (pc \in {"cleanup", "done"} /\ hasCreds /\ exc = "none") =>
        LET n == Len(fresh)
        IN  /\ Len(sent) = (n + ChunkSize - 1) \div ChunkSize
            /\ \A k \in 1..(Len(sent) - 1) : Len(sent[k].chunk) = ChunkSize
            /\ sent # <<>> => Len(sent[Len(sent)].chunk) \in 1..ChunkSize
            /\ \A i \in 1..n :
                  fresh[i] = sent[((i - 1) \div ChunkSize) + 1]
                                 .chunk[((i - 1) % ChunkSize) + 1]

\* Twelve records went out as chunks of 5, 5 and 2.
C11_Witness ==
    /\ pc = "cleanup"
    /\ Len(fresh) = 2 * ChunkSize + 2
    /\ Len(sent) = 3
    /\ Len(sent[1].chunk) = ChunkSize
    /\ Len(sent[2].chunk) = ChunkSize
    /\ Len(sent[3].chunk) = 2

\* C12: every chunk is posted exactly once, in order, whatever the posts
\* before it did, and a failed post is not raised out of run().
C12_EveryChunkAttempted ==
    LET chunks == chunk_list(fresh, ChunkSize)
    IN  /\ pc = "send" => Len(sent) = sendIdx - 1 /\ sendIdx <= Len(chunks)
        /\ \A k \in 1..Len(sent) : k <= Len(chunks) /\ sent[k].chunk = chunks[k]
        /\ (pc \in {"cleanup", "done"} /\ hasCreds /\ exc = "none")
              => Len(sent) = Len(chunks)
        /\ exc # "sink"

\* Three chunks were posted though the first two posts failed.
C12_Witness ==
    /\ pc = "cleanup"
    /\ exc = "none"
    /\ Len(sent) = 3
    /\ sent[1].outcome = "exception"
    /\ sent[2].outcome = "http_error"
    /\ sent[3].outcome = "ok"

\* initialize() of adapter f was called in this cycle and returned False or
\* raised.
SetupFailed(f) ==
    /\ initResult[f] # "none"
    /\ InitReturn(f, initResult[f]) \in {"False", "raise"}

\* initialize() of adapter f was called in this cycle and neither returned
\* False nor raised.
SetupSucceeded(f) ==
    /\ initResult[f] # "none"
    /\ InitReturn(f, initResult[f]) \in {"True", "None"}

\* C13: when run() ends, cleanup() has been called on every adapter whose
\* initialize() was called in the cycle, also on those that returned False
\* or raised.
C13_CleanupOnEverySetUp ==
    pc = "done" => \A f \in FetcherNames : initResult[f] # "none" => f \in cleaned

\* C14: when run() ends, on any path, cleanup() has been called on every
\* adapter whose initialize() succeeded in the cycle.
C14_CleanupOnEveryExit ==
    pc = "done" => \A f \in FetcherNames : SetupSucceeded(f) => f \in cleaned

\* run() ended by an exception raised while notifying, after the fresh
\* records were saved, and both adapters were cleaned up.
C14_Witness ==
    /\ pc = "done"
    /\ exc = "step"
    /\ saved # <<>>
    /\ \A f \in FetcherNames : SetupSucceeded(f) /\ f \in cleaned

\* C15: an adapter whose initialize() returned False or raised has no fetch
\* task in that cycle, every other adapter that was set up has one, and
\* the failure is not raised out of run().
C15_FailedSetupExcluded ==
    /\ exc # "setup"
    /\ pc \in {"fetch", "merged"} =>
          \A f \in FetcherNames :
              /\ SetupFailed(f) => task[f] = "idle" /\ fetched[f] = Returned(<<>>)
              /\ SetupSucceeded(f) => task[f] # "idle"

\* The RSS adapter failed its setup and the other adapter's records were
\* fetched and merged.
C15_Witness ==
    /\ pc = "merged"
    /\ SetupFailed("rss")
    /\ task["rss"] = "idle"
    /\ SetupSucceeded("internshala")
    /\ fetched["internshala"].value # <<>>
    /\ all_jobs = fetched["internshala"].value

\* C16: a cycle with no adapter left after the setup posts nothing to the
\* sink.
C16_NoAdapterPostsNothing ==
    (fetchers = <<>> /\ pc \notin {"start", "init"})
        => summaries = 0 /\ sent = <<>>

\* C17: run() re-raises none of the failures of adapter setup, adapter
\* fetch, the reads and writes of the two tiers, and the posts to the sink.
C17_RunReturnsNormally == exc \in {"none", "step"}

\* run() returned after a cycle in which an adapter failed its setup, the
\* local file was unreadable, Firestore could not be read, a save reached
\* neither tier and a post to the sink raised.
C17_Witness ==
    /\ pc = "done"
    /\ exc = "none"
    /\ SetupFailed("rss")
    /\ localFile.kind = "corrupt"
    /\ hydRemote = {} /\ remote # {}
    /\ \E i \in 1..Len(saved) :
          saved[i] \notin persisted /\ EncodeDocId(saved[i]) \notin remote
    /\ \E k \in 1..Len(sent) : sent[k].outcome = "exception"

\* The same letter, whatever the case.
SameLetter(a, b) == LowerChar(a) = LowerChar(b)

\* A keyword occurs in the text, whatever the case of the letters.
KeywordIn(text) ==
    \E k \in 1..Len(IT_KEYWORDS) :
        \E off \in 0..(Len(text) - Len(IT_KEYWORDS[k])) :
            \A j \in 1..Len(IT_KEYWORDS[k]) :
                SameLetter(IT_KEYWORDS[k][j], text[off + j])

\* C18: filter_last_24_hours keeps a record iff its posted timestamp, read
\* as UTC when it has no zone, lies in the 24 hours before the evaluation
\* time.
C18_RecencyWindow ==
    \A i \in 1..Len(all_jobs) :
        (\E j \in 1..Len(filter_last_24_hours(all_jobs)) :
             filter_last_24_hours(all_jobs)[j] = all_jobs[i])
        <=> /\ EvalTime - RecencyWindow <= UtcInstant(all_jobs[i].posted_date)
            /\ UtcInstant(all_jobs[i].posted_date) <= EvalTime

\* C19: a posting whose adapter had no posted timestamp for it is never
\* fresh, saved or posted to the sink.
C19_UndatedNeverFresh ==
    /\ \A i \in 1..Len(fresh) : fresh[i] # RecNoDate
    /\ \A i \in 1..Len(saved) : saved[i] # U3
    /\ \A k \in 1..Len(sent) : \A i \in 1..Len(sent[k].chunk) :
          sent[k].chunk[i] # RecNoDate

\* C20: a record passes the keyword step iff a keyword occurs, whatever the
\* case, in its title or in its description; no fresh record fails that.
C20_KeywordStep ==
    /\ \A i \in 1..Len(all_jobs) :
          (\E j \in 1..Len(KeywordFilter(all_jobs)) :
               KeywordFilter(all_jobs)[j] = all_jobs[i])
          <=> (KeywordIn(all_jobs[i].title) \/ KeywordIn(all_jobs[i].description))
    /\ \A i \in 1..Len(fresh) :
          KeywordIn(fresh[i].title) \/ KeywordIn(fresh[i].description)

\* Of a record without title and description and one with a keyword in the
\* description only, the second alone became fresh.
C20_Witness ==
    /\ pc = "save"
    /\ all_jobs = <<RecEmpty, RecB>>
    /\ fresh = <<RecB>>

\* A term of the allow-list occurs in the location, whatever the case of
\* the letters.
TermIn(location, filters) ==
    \E k \in 1..Len(filters) :
        \E off \in 0..(Len(location) - Len(filters[k])) :
            \A j \in 1..Len(filters[k]) :
                SameLetter(filters[k][j], location[off + j])

\* The records of `internships` at the places in `places`, in the order of
\* `internships`.
RECURSIVE AtPlaces(_, _, _)
AtPlaces(internships, places, k) ==
    IF k > Len(internships) THEN <<>>
    ELSE (IF k \in places THEN <<internships[k]>> ELSE <<>>)
             \o AtPlaces(internships, places, k + 1)

\* C21: with an empty allow-list the location step returns its input; with
\* a non-empty one it returns, in the order of the input, the records whose
\* location contains a term of the list whatever the case, so none with an
\* empty location; every fresh record passed it.
C21_LocationStep ==
    LET input  == KeywordFilter(all_jobs)
        output == LocationFilter(input, location_filters)
        passes == {k \in 1..Len(input) :
                      TermIn(input[k].location, location_filters)}
    IN  /\ location_filters = <<>> => output = input
        /\ location_filters # <<>> =>
              /\ output = AtPlaces(input, passes, 1)
              /\ \A k \in 1..Len(output) : output[k].location # <<>>
              /\ \A i \in 1..Len(fresh) :
                    TermIn(fresh[i].location, location_filters)

\* With the allow-list set, of a record without location and one located
\* in India the second alone became fresh.
C21_Witness ==
    /\ pc = "save"
    /\ location_filters # <<>>
    /\ all_jobs = <<RecNoLoc, RecA>>
    /\ fresh = <<RecA>>

\* C22: save_internship of a record whose URL is already in seen_urls
\* leaves seen_urls as it was, with the same cardinality, and a local file
\* written by that call lists every id once, that URL among them.
C22_RecordingIsIdempotent ==
    [][(pc = "save" /\ is_duplicate(fresh[saveIdx].url, seen_urls)) =>
          /\ seen_urls' = seen_urls
          /\ Cardinality(seen_urls') = Cardinality(seen_urls)
          /\ lastSave'.local = "ok" =>
                /\ localFile'.kind = "list"
                /\ fresh[saveIdx].url \in localFile'.ids
                /\ localFile'.entries = Cardinality(localFile'.ids)]_vars

\* The same URL was recorded twice and the file written by the second call
\* lists it once.
C22_Witness ==
    /\ saved = <<U1, U1>>
    /\ lastSave.local = "ok"
    /\ seen_urls = {U1}
    /\ localFile = ListFile({U1})
    /\ localFile.entries = 1

\* C23: every URL passed to save_internship in the cycle is a duplicate
\* afterwards, whatever the Firestore write and the write of the local file
\* did; the local write is attempted after a failed Firestore write as
\* after a successful one; and run() re-raises no failure of a save.
C23_SaveAlwaysRecords ==
    /\ \A i \in 1..Len(saved) : is_duplicate(saved[i], seen_urls)
    /\ lastSave.remote # "none" => lastSave.local \in WriteOutcomes
    /\ exc \notin {"save_remote", "save_local"}

\* A save reached neither tier, its URL is a duplicate all the same and
\* run() went on to the notification.
C23_Witness ==
    /\ pc = "notify"
    /\ exc = "none"
    /\ lastSave = [remote |-> "failed", local |-> "denied"]
    /\ saved # <<>>
    /\ is_duplicate(saved[Len(saved)], seen_urls)
    /\ saved[Len(saved)] \notin LocalView(localFile)
    /\ EncodeDocId(saved[Len(saved)]) \notin remote

\* C24: after a save_internship whose write of seen_urls.json succeeded, the
\* ids in the file are the in-memory set seen_urls: the ids of the
\* hydration, the URLs saved before, and the new one.
C24_MirrorIsSnapshot ==
    lastSave.local = "ok" =>
        /\ localFile.kind = "list"
        /\ LocalView(localFile) = seen_urls
        /\ hydrated \subseteq LocalView(localFile)
        /\ \A i \in 1..Len(saved) : saved[i] \in LocalView(localFile)

\* The file written by the second save of a cycle holds the ids of the
\* hydration and both URLs.
C24_Witness ==
    /\ lastSave.local = "ok"
    /\ hydrated # {}
    /\ Len(saved) = 2
    /\ saved[1] # saved[2]
    /\ LocalView(localFile) = hydrated \cup {saved[1], saved[2]}
    /\ Cardinality(LocalView(localFile)) = Cardinality(hydrated) + 2

\* C25: when run() has returned from a cycle in which no write of
\* seen_urls.json failed, the file holds every id of the in-memory set
\* seen_urls, also when no record was saved in the cycle.
C25_FlushedAtRunEnd ==
    (pc = "done" /\ exc = "none" /\ ~mirrorFailed)
        => seen_urls \subseteq LocalView(localFile)

\* The document ids that were in the collection before this cycle wrote to
\* it.
RemoteBefore == remote \ {EncodeDocId(saved[i]) : i \in 1..Len(saved)}

\* C26: when Firestore holds ids and its read fails during hydration,
\* _load_seen_urls ends with seen_urls equal to the ids of the local file,
\* the failure is not raised out of run(), and the cycle is at the setup of
\* the adapters.
C26_RemoteFailureDegrades ==
    /\ exc # "hydrate_remote"
    /\ (pc = "init" /\ hydRemote = {} /\ remote # {}) =>
          /\ seen_urls = hydLocal
          /\ seen_urls = LocalView(localFile)
    /\ (pc \notin {"start", "done"} /\ hydRemote = {} /\ RemoteBefore # {}) =>
          /\ hydrated = hydLocal
          /\ pc = "cleanup" => exc \in {"none", "step"}

\* The read of a non-empty collection failed, and the cycle set up the
\* adapters, fetched, found a record fresh against the ids of the local
\* file, saved it and posted it.
C26_Witness ==
    /\ pc = "cleanup"
    /\ exc = "none"
    /\ hydRemote = {}
    /\ RemoteBefore # {}
    /\ hydLocal # {}
    /\ saved # <<>>
    /\ seen_urls = hydLocal \cup Range(saved)
    /\ sent # <<>>
    /\ sent[1].outcome = "ok"

\* C27: when seen_urls.json is missing, unreadable or holds no list,
\* hydration reads no id from it, ends with seen_urls equal to the ids that
\* Firestore returned, and the failure is not raised out of run().
C27_LocalFailureFallsBack ==
    /\ exc # "hydrate_local"
    /\ (pc = "init" /\ localFile.kind # "list") =>
          /\ hydLocal = {}
          /\ seen_urls = hydRemote
          /\ hydrated = hydRemote

\* The file was unreadable, and the set after hydration holds the ids of
\* the collection.
C27_Witness ==
    /\ pc = "init"
    /\ exc = "none"
    /\ localFile.kind = "corrupt"
    /\ hydRemote # {}
    /\ seen_urls = hydRemote

C29_FetchNeverRaises ==
    \A f \in FetcherNames : fetched[f].kind # "raise" /\ task[f] # "raised"

\* C30, as stated: the retrying GET makes at most max_retries + 1 attempts,
\* 4 as configured, and none after an answered one; when the last allowed
\* attempt fails it returns an empty result without a sleep after it and
\* without raising; and the loop ends.
C30_RetryCapped ==
    /\ [](LET n == Len(retry.log)
          IN  /\ n <= retry.max_retries + 1
              /\ retry.max_retries = ConfiguredMaxRetries => n <= 4
              /\ \A k \in 1..(n - 1) : retry.log[k] \notin Answered
              /\ retry.pc = "get" => n = retry.attempt
              /\ (n = retry.max_retries + 1 /\ retry.log[n] \notin Answered) =>
                    /\ retry.pc = "returned"
                    /\ retry.result = "empty"
                    /\ Len(retry.slept) = retry.max_retries)
    /\ <>(retry.pc \in {"returned", "raised"})

\* C30, amended: the retrying GET makes at most max_retries + 1 attempts, 4
\* as configured, and none after an answered one; when the last allowed
\* attempt fails with an exception that the except clause of the loop
\* catches, it returns an empty result without a sleep after it and
\* without raising; an exception that the clause does not catch leaves the
\* function at that attempt, with no sleep and no attempt after it; and
\* the loop ends.
C30_RetryCappedForCaught ==
    /\ [](LET n == Len(retry.log)
          IN  /\ n <= retry.max_retries + 1
              /\ retry.max_retries = ConfiguredMaxRetries => n <= 4
              /\ \A k \in 1..(n - 1) :
                    /\ retry.log[k] \notin Answered
                    /\ Caught(retry.adapter, retry.log[k])
                    /\ retry.slept[k] = Pow2(k - 1)
              /\ retry.pc = "get" => n = retry.attempt
              /\ (n = retry.max_retries + 1 /\ retry.log[n] \notin Answered
                  /\ Caught(retry.adapter, retry.log[n])) =>
                    /\ retry.pc = "returned"
                    /\ retry.result = "empty"
                    /\ Len(retry.slept) = retry.max_retries
              /\ (n > 0 /\ retry.log[n] \notin Answered
                  /\ ~Caught(retry.adapter, retry.log[n])) =>
                    /\ retry.pc = "raised"
                    /\ Len(retry.slept) = n - 1)
    /\ <>(retry.pc \in {"returned", "raised"})

\* With max_retries = 3 four GETs failed with caught exceptions, the
\* function slept 1, 2 and 4 seconds and returned an empty result.
C30_Witness ==
    /\ retry.pc = "returned"
    /\ retry.adapter = "remoteok"
    /\ retry.max_retries = ConfiguredMaxRetries
    /\ Len(retry.log) = 4
    /\ \A k \in 1..4 : Caught(retry.adapter, retry.log[k])
    /\ retry.slept = <<1, 2, 4>>
    /\ retry.result = "empty"

RECURSIVE SumSeq(_)
\* The seconds slept in all, over the calls of asyncio.sleep of one loop.
SumSeq(seq) == IF seq = <<>> THEN 0 ELSE Head(seq) + SumSeq(Tail(seq))

\* C31: the backoff doubles per attempt: the sleep after the failed attempt
\* k (from 0, k < max_retries) is 2^k seconds and precedes attempt k + 1, so
\* with max_retries = 3 the waits are 1, 2, 4, and a sequence that used up
\* its attempts has slept 2^max_retries - 1 seconds in all.
C31_BackoffDoubles ==
    LET n == Len(retry.log)
        exhausted == /\ retry.pc = "returned"
                     /\ n = retry.max_retries + 1
                     /\ retry.log[n] \notin Answered
    IN  /\ \A k \in 1..Len(retry.slept) :
              /\ retry.slept[k] = 2 ^ (k - 1)
              /\ k - 1 < retry.max_retries
              /\ retry.log[k] \notin Answered
        /\ retry.pc = "get" => Len(retry.slept) = retry.attempt
        /\ exhausted => SumSeq(retry.slept) = 2 ^ retry.max_retries - 1
        /\ (exhausted /\ retry.max_retries = ConfiguredMaxRetries) =>
              retry.slept = <<1, 2, 4>>

\* The WWR adapter, with max_retries = 3, made four GETs that all failed
\* and slept 1, 2 and 4 seconds between them, 7 in all.
C31_Witness ==
    /\ retry.pc = "returned"
    /\ retry.adapter = "wwr"
    /\ retry.max_retries = ConfiguredMaxRetries
    /\ Len(retry.log) = 4
    /\ retry.log[4] \notin Answered
    /\ retry.slept = <<1, 2, 4>>
    /\ SumSeq(retry.slept) = 7

\* C32: the list that one call of fetch() returns never holds two records
\* with the same URL, also when the provider's answer lists a posting
\* twice.
C32_AdapterResultDistinct ==
    \A f \in FetcherNames :
        fetched[f].kind = "return" =>
            \A i, j \in 1..Len(fetched[f].value) :
                i # j => fetched[f].value[i].url # fetched[f].value[j].url

\* C33: the document id of a URL has at most 1400 characters, all of the
\* safe alphabet: for a URL of at most 1400 characters it is the URL with
\* each unsafe character replaced by "_", and for a longer one the 64 hex
\* digits of its SHA-256 digest.
C33_KeyBounded ==
    call.fn = "save_internship" =>
        \A k \in 1..Len(call.written) :
            LET url == call.written[k].url
                key == call.written[k].doc_id
            IN  /\ Len(key) <= 1400
                /\ \A i \in 1..Len(key) : key[i] \in SafeChars
                /\ Len(url) <= 1400 =>
                      /\ Len(key) = Len(url)
                      /\ \A i \in 1..Len(url) :
                            key[i] = (IF url[i] \in SafeChars THEN url[i]
                                      ELSE "_")
                /\ Len(url) > 1400 =>
                      /\ Len(key) = 64
                      /\ key = Sha256Hex(url)
                      /\ \A i \in 1..Len(key) : key[i] \in Range(HexDigits)

\* A URL of 1400 characters was written under its transliteration and one
\* of 1401 characters under a digest.
C33_Witness ==
    /\ call.fn = "save_internship"
    /\ Len(call.written) = 2
    /\ Len(call.written[1].url) = DocIdMaxLen
    /\ Len(call.written[1].doc_id) = DocIdMaxLen
    /\ call.written[1].doc_id[2] = "_"
    /\ Len(call.written[2].url) = DocIdMaxLen + 1
    /\ Len(call.written[2].doc_id) = DigestLen

\* C34: two distinct URLs never get the same document id, digests of
\* over-long URLs aside, so the write of one record never replaces the
\* document of another: every URL written keeps a document of its own.
C34_KeysUnique ==
    call.fn = "save_internship" =>
        \A j, k \in 1..Len(call.written) :
            LET u == call.written[j]
                v == call.written[k]
                digests == Len(u.url) > DocIdMaxLen /\ Len(v.url) > DocIdMaxLen
            IN  (u.url # v.url /\ ~digests) =>
                    /\ u.doc_id # v.doc_id
                    /\ [doc_id |-> u.doc_id, url |-> u.url] \in call.collection

\* C35: two records are equal iff their URLs, normalized, are equal,
\* whatever their titles and metadata; URLs that differ only in surrounding
\* whitespace, in a trailing slash or in the case of the scheme normalize
\* to one identity; and equal records have equal hashes.
C35_IdentityEquality ==
    (call.fn = "Internship" /\ call.pc = "constructed") =>
        LET x == call.objects[1]
            y == call.objects[2]
        IN  /\ call.eq <=> (x.url = y.url)
            /\ call.variation \in {"same", "whitespace", "trailing_slash",
                                   "scheme_case"} => call.eq
            /\ call.variation = "other" => ~call.eq
            /\ call.eq => call.hashes[1] = call.hashes[2]

\* C36: filter_new_internships of an initialized adapter returns the input
\* records whose URL is not in the seen-jobs set, in input order, and does
\* not raise, whether the set is empty or not; it leaves the input list and
\* the set as they were.
C36_FilterNewExact ==
    (call.fn = "filter_new_internships" /\ call.pc = "ended") =>
        /\ call.outcome.kind = "return"
        /\ call.outcome.value =
              SelectSeq(call.internships_before,
                        LAMBDA i : i.url \notin call.seen_jobs_before)
        /\ call.internships = call.internships_before
        /\ call.seen_jobs = call.seen_jobs_before

\* C37: the recency step of run() decides each record on its own posted
\* timestamp: of the records that passed the keyword and location steps,
\* the ones kept are those that filter_last_24_hours keeps, whatever else
\* is in the batch, another record with the same URL included.
C37_RecencyPerRecord ==
    /\ \A i \in 1..Len(fresh) : filter_last_24_hours(<<fresh[i]>>) # <<>>
    /\ (pc \in {"save", "summary"} /\ saveIdx = 1 /\ all_jobs # <<>>) =>
          LET filtered == LocationFilter(KeywordFilter(all_jobs),
                                         location_filters)
              recent   == SelectSeq(filtered,
                              LAMBDA r : filter_last_24_hours(<<r>>) # <<>>)
          IN  fresh = FreshOf(recent, seenAtLookup)

\* C38: no identity is recorded without its record having been handed to
\* the sink: when a cycle has run to its end, every URL it passed to
\* save_internship is the URL of a record in exactly one chunk that the
\* cycle posted, with or without sink credentials.
C38_SavedWereSubmitted ==
    (pc = "done" /\ exc = "none") =>
        \A k \in 1..Len(saved) :
            Cardinality({c \in 1..Len(sent) :
                            \E i \in 1..Len(sent[c].chunk) :
                                sent[c].chunk[i].url = saved[k]}) = 1

\* C39: when run() has returned, normally or by raising, no client session
\* of an adapter or of the bot is open.
C39_SessionsClosed ==
    pc = "done" => \A w \in SessionOwners : session[w] # "open"

\* C40: Internship.from_dict(x.to_dict()) has the title, company, location,
\* url, source, posted_date, description and metadata of x, and its to_dict
\* is x.to_dict().
C40_RoundTrip ==
    call.fn = "from_dict" =>
        /\ \A k \in FieldNames \cup {"metadata"} : call.back[k] = call.x[k]
        /\ call.dict_back = call.dict

\* C10, as stated: a cycle whose steps ran to the end with no fresh record
\* posts exactly one summary, no chunk, and records no identity.
C10_EmptyCycleOneSummary ==
    (pc \in {"cleanup", "done"} /\ fresh = <<>> /\ exc = "none") =>
        /\ summaries = 1
        /\ sent = <<>>
        /\ saved = <<>>
        /\ seen_urls = hydrated

\* C10, amended: a cycle whose steps ran to the end with no fresh record
\* posts no chunk and records no identity; it posts exactly one summary when the sink credentials are
\* set, and none when they are missing.
C10_EmptyCycleSummaryIfCreds ==
    (pc \in {"cleanup", "done"} /\ fresh = <<>> /\ exc = "none") =>
        /\ summaries = (IF hasCreds THEN 1 ELSE 0)
        /\ sent = <<>>
        /\ saved = <<>>
        /\ seen_urls = hydrated

\* Every relevant record was already seen and the summary was posted.
C10_Witness ==
    /\ pc = "cleanup"
    /\ fresh = <<>>
    /\ RelevanceFilter(all_jobs, location_filters) # <<>>
    /\ hasCreds
    /\ summaries = 1

====
